---- MODULE Spec2Model ----
(***************************************************************************)
(* A model of message-book: src/src/render.rs (latex_escape,               *)
(* LatexMessage::render, render_message) and src/src/main.rs               *)
(* (iter_messages).                                                        *)
(*                                                                         *)
(* Text is a sequence of characters, each character a one-element string.  *)
(* A character outside ASCII is written as the name of its code point      *)
(* ("U+2019"); it is still one element of the sequence.                    *)
(***************************************************************************)
EXTENDS Integers, Sequences, FiniteSets, TLC

VARIABLES
    pc,                  \* position of the operation being run
    text,                \* latex_escape: the argument `text`
    fetched,             \* latex_escape: result of the i-th fetch_title call
    escaped,             \* latex_escape: the returned string
    msg,                 \* render_message: the argument `msg`
    insert_extra_space,  \* render_message: the argument `insert_extra_space`
    latex_msg,           \* render_message: the local `latex_msg`
    rendered,            \* render_message: the returned string
    chat_identifier,     \* iter_messages: the argument `chat_identifier`
    message_table,       \* the rows of the message store, in m.date order
    chat_ids,            \* iter_messages: the local `chat_ids`
    msgs,                \* iter_messages: what the iterator `msgs` yields
    filtered_msgs,       \* iter_messages: the local `filtered_msgs`
    messages_json,       \* the content of messages.json
    chapters,            \* iter_messages: the local `chapters`
    current_output_info, \* iter_messages: the name in `current_output_info`
    files,               \* the chapter files: name -> the writes made to it
    done,                \* messages of filtered_msgs the loop is through with
    main_template,       \* iter_messages: the local `main_template`
    main_tex,            \* the writes made to main.tex
    copied,              \* the assets copied to the output directory
    failure              \* why the run ended early, "" while it has not

escapeVars == <<text, fetched, escaped>>
renderVars == <<msg, insert_extra_space, latex_msg, rendered>>
inputVars == <<chat_identifier, message_table>>
queryVars == <<chat_ids, msgs, filtered_msgs, messages_json>>
loopVars == <<chapters, current_output_info, files, done>>
rootVars == <<main_template, main_tex, copied>>
runVars == <<inputVars, queryVars, loopVars, rootVars, failure>>
vars == <<pc, escapeVars, renderVars, runVars>>

----------------------------------------------------------------------------
(* Bounds *)

\* longest input text of latex_escape, in pieces of EscapeAlphabet
MaxTextLen == 3

\* longest text with links, in pieces of LinkAlphabet
MaxLinkLen == 4

\* most body segments of one message
MaxParts == 3

\* message timestamps are FirstDay + k * DayStride, k in 0..MaxDateIdx, in
\* days since the epoch of the message store (2001-01-01, local time)
FirstDay == 335
DayStride == 15
MaxDateIdx == 2

\* most rows of the message table, in a run over one conversation and in a
\* run over several
MaxRows == 3
MaxFilterRows == 2

----------------------------------------------------------------------------
(* Strings *)

\* a string literal as a sequence of characters
Chars(str) == [i \in 1..Len(str) |-> SubSeq(str, i, i)]

Min(S) == CHOOSE x \in S : \A y \in S : x <= y

RSQUO == "U+2019"    \* right single quotation mark
LSQUO == "U+2018"    \* left single quotation mark
LDQUO == "U+201C"    \* left double quotation mark
RDQUO == "U+201D"    \* right double quotation mark
ELLIPSIS == "U+2026" \* horizontal ellipsis
VS16 == "U+FE0F"     \* variation selector-16
EMOJI1 == "U+1F600"  \* grinning face
EMOJI2 == "U+2764"   \* heavy black heart
NL == "\n"
TAB == "\t"

\* the sequences over S of length at most n
SeqsUpTo(S, n) == UNION {[1..k -> S] : k \in 0..n}

\* the pattern p occurs in s at index i
StartsWithAt(s, i, p) ==
    /\ i + Len(p) - 1 <= Len(s)
    /\ SubSeq(s, i, i + Len(p) - 1) = p

\* str::contains
Contains(s, p) == \E i \in 1..(Len(s) - Len(p) + 1) : StartsWithAt(s, i, p)

\* str::find: the index of the first occurrence, 0 when there is none
Find(s, p) ==
    LET at == {i \in 1..Len(s) : StartsWithAt(s, i, p)}
    IN  IF at = {} THEN 0 ELSE Min(at)

\* str::replace: every non-overlapping occurrence of `from`, left to right
RECURSIVE Replace(_, _, _)
Replace(s, from, to) ==
    IF Len(from) = 0 \/ Find(s, from) = 0 THEN s
    ELSE SubSeq(s, 1, Find(s, from) - 1) \o to
           \o Replace(SubSeq(s, Find(s, from) + Len(from), Len(s)), from, to)

\* str::split on one character
RECURSIVE Split(_, _)
Split(s, c) ==
    LET pos == {k \in 1..Len(s) : s[k] = c}
    IN  IF pos = {} THEN <<s>>
        ELSE <<SubSeq(s, 1, Min(pos) - 1)>>
                 \o Split(SubSeq(s, Min(pos) + 1, Len(s)), c)

----------------------------------------------------------------------------
(* fetch_title: the outcome of a fetch is the network's; the model takes it *)
(* as an input.  res is "Err" (request failed), "None" (no title element)   *)
(* or "Some" (title holds its text).                                        *)

FetchErr == [res |-> "Err", title |-> <<>>]
FetchNone == [res |-> "None", title |-> <<>>]
FetchSome(t) == [res |-> "Some", title |-> t]

\* the i-th call of fetch_title in one latex_escape
fetch_title(results, i) == IF i <= Len(results) THEN results[i] ELSE FetchErr

----------------------------------------------------------------------------
(* latex_escape *)

\* \s of the regex crate, on the characters of the model
IsSpace(c) == c \in {" ", NL, TAB, "\r"}

\* https?://[^\s]+ anchored at i: the index of the last character of the
\* match, 0 when there is none
UrlMatchEnd(s, i) ==
    LET body == IF StartsWithAt(s, i, Chars("https://")) THEN i + 8
                ELSE IF StartsWithAt(s, i, Chars("http://")) THEN i + 7
                ELSE 0
        stops == {k \in body..Len(s) : IsSpace(s[k])}
    IN  IF body = 0 \/ body > Len(s) THEN 0
        ELSE IF stops = {} THEN Len(s)
        ELSE IF Min(stops) = body THEN 0
        ELSE Min(stops) - 1

\* url_regex.find_iter: the matches from index i on, as <<first, last>>
RECURSIVE FindUrls(_, _)
FindUrls(s, i) ==
    IF i > Len(s) THEN <<>>
    ELSE IF UrlMatchEnd(s, i) > 0
         THEN <<<<i, UrlMatchEnd(s, i)>>>> \o FindUrls(s, UrlMatchEnd(s, i) + 1)
         ELSE FindUrls(s, i + 1)

undesired_titles ==
    { Chars("Page Not Found"),
      Chars("Access Denied"),
      Chars("Access to this page has been denied"),
      Chars("404"),
      Chars("404 not found"),
      Chars("Update Your Browser | Facebook"),
      Chars("403 Forbidden"),
      Chars("400 Bad Request"),
      Chars("Blocked") }

\* a fetched title is kept
TitleKeptExact(title) == title \notin undesired_titles
TitleKept(title) == ~ \E undesired \in undesired_titles : Contains(title, undesired)

\* the loop over urls: url_to_title as a set of <<url, title>> pairs, one
\* per url; HashMap::insert replaces the entry of a url already there
RECURSIVE UrlToTitle(_, _, _, _)
UrlToTitle(s, urls, results, i) ==
    IF i = 0 THEN {}
    ELSE LET before == UrlToTitle(s, urls, results, i - 1)
             url == SubSeq(s, urls[i][1], urls[i][2])
             r == fetch_title(results, i)
         IN  IF r.res = "Some" /\ TitleKept(r.title)
             THEN {p \in before : p[1] # url}
                    \cup {<<url, Replace(Replace(r.title, <<NL>>, <<" ">>),
                                         <<TAB>>, <<" ">>)>>}
             ELSE before

\* url.split('/').nth(2).unwrap_or(url)
CorePart(url) ==
    LET pieces == Split(url, "/")
    IN  IF Len(pieces) >= 3 THEN pieces[3] ELSE url

\* the closure of replace_all
LinkAnnotation(url, url_to_title) ==
    LET hit == {p \in url_to_title : p[1] = url}
    IN  IF hit # {}
        THEN Chars("(link: ") \o CorePart(url) \o Chars(", ")
                \o (CHOOSE p \in hit : TRUE)[2] \o Chars(")")
        ELSE Chars("(link: ") \o CorePart(url) \o Chars(")")

\* url_regex.replace_all: the text from index `from` on, with the matches
\* urls[i..] replaced
RECURSIVE ReplaceUrls(_, _, _, _, _)
ReplaceUrls(s, urls, url_to_title, i, from) ==
    IF i > Len(urls) THEN SubSeq(s, from, Len(s))
    ELSE SubSeq(s, from, urls[i][1] - 1)
           \o LinkAnnotation(SubSeq(s, urls[i][1], urls[i][2]), url_to_title)
           \o ReplaceUrls(s, urls, url_to_title, i + 1, urls[i][2] + 1)

\* the first four str::replace calls: the smart characters
NormalizeSmartNoEllipsis(s) ==
    Replace(Replace(Replace(s, <<RSQUO>>, <<"'">>), <<LDQUO>>, <<"\"">>),
            <<RDQUO>>, <<"\"">>)

NormalizeSmart(s) ==
    LET r1 == Replace(s, <<RSQUO>>, <<"'">>)
        r2 == Replace(r1, <<LDQUO>>, <<"\"">>)
        r3 == Replace(r2, <<RDQUO>>, <<"\"">>)
    IN  Replace(r3, <<ELLIPSIS>>, Chars("..."))

\* the other str::replace calls: the markup-control characters, the newline
\* and the variation selector
EscapeMarkupBackslashLast(s) ==
    LET r6 == Replace(s, <<"$">>, Chars("\\$"))
        r7 == Replace(r6, <<"%">>, Chars("\\%"))
        r8 == Replace(r7, <<"&">>, Chars("\\&"))
        r9 == Replace(r8, <<"_">>, Chars("\\_"))
        r10 == Replace(r9, <<"^">>, Chars("\\textasciicircum\\ "))
        r11 == Replace(r10, <<"~">>, Chars("\\textasciitilde\\ "))
        r12 == Replace(r11, <<"#">>, Chars("\\#"))
        r13 == Replace(r12, <<"{">>, Chars("\\{"))
        r14 == Replace(r13, <<"}">>, Chars("\\}"))
        r5 == Replace(r14, <<"\\">>, Chars("\\textbackslash\\ "))
        r15 == Replace(r5, <<NL>>, Chars("\\newline") \o <<NL>>)
    IN  Replace(r15, <<VS16>>, <<>>)

EscapeMarkup(s) ==
    LET r5 == Replace(s, <<"\\">>, Chars("\\textbackslash\\ "))
        r6 == Replace(r5, <<"$">>, Chars("\\$"))
        r7 == Replace(r6, <<"%">>, Chars("\\%"))
        r8 == Replace(r7, <<"&">>, Chars("\\&"))
        r9 == Replace(r8, <<"_">>, Chars("\\_"))
        r10 == Replace(r9, <<"^">>, Chars("\\textasciicircum\\ "))
        r11 == Replace(r10, <<"~">>, Chars("\\textasciitilde\\ "))
        r12 == Replace(r11, <<"#">>, Chars("\\#"))
        r13 == Replace(r12, <<"{">>, Chars("\\{"))
        r14 == Replace(r13, <<"}">>, Chars("\\}"))
        r15 == Replace(r14, <<NL>>, Chars("\\newline") \o <<NL>>)
    IN  Replace(r15, <<VS16>>, <<>>)

\* \p{Extended_Pictographic}, on the characters of the model
IsPictographic(c) == c \in {EMOJI1, EMOJI2}

\* emoji_regex.replace_all(.., "{\\emojifont $1}"): every maximal run
RECURSIVE WrapEmoji(_)
WrapEmoji(s) ==
    IF s = <<>> THEN <<>>
    ELSE IF IsPictographic(s[1])
         THEN LET stops == {k \in 1..Len(s) : ~IsPictographic(s[k])}
                  last == IF stops = {} THEN Len(s) ELSE Min(stops) - 1
              IN  Chars("{\\emojifont ") \o SubSeq(s, 1, last) \o <<"}">>
                     \o WrapEmoji(SubSeq(s, last + 1, Len(s)))
         ELSE <<Head(s)>> \o WrapEmoji(Tail(s))

latex_escape(s, results) ==
    LET urls == FindUrls(s, 1)
        url_to_title == UrlToTitle(s, urls, results, Len(urls))
        linked == ReplaceUrls(s, urls, url_to_title, 1, 1)
    IN  WrapEmoji(EscapeMarkup(NormalizeSmart(linked)))

----------------------------------------------------------------------------
(* Dates.  Message::date gives the local date of a timestamp; the model    *)
(* counts timestamps in days since 2001-01-01 and leaves out the time of   *)
(* day.  Civil(day) is the proleptic Gregorian date of that day.           *)

Civil(day) ==
    LET z == day + 730791         \* days since 0000-03-01
        era == z \div 146097
        doe == z - era * 146097
        yoe == (doe - doe \div 1460 + doe \div 36524 - doe \div 146096) \div 365
        doy == doe - (365 * yoe + yoe \div 4 - yoe \div 100)
        mp == (5 * doy + 2) \div 153
        m == IF mp < 10 THEN mp + 3 ELSE mp - 9
    IN  [year |-> yoe + era * 400 + (IF m <= 2 THEN 1 ELSE 0),
         month |-> m,
         day |-> doy - (153 * mp + 2) \div 5 + 1]

Digit(d) == SubSeq("0123456789", d + 1, d + 1)

\* an integer >= 0 in decimal
RECURSIVE ToDec(_)
ToDec(n) == IF n < 10 THEN <<Digit(n)>> ELSE ToDec(n \div 10) \o <<Digit(n % 10)>>

\* pad on the left to width w
RECURSIVE PadLeft(_, _, _)
PadLeft(s, w, c) == IF Len(s) >= w THEN s ELSE PadLeft(<<c>> \o s, w, c)

MonthName(m) ==
    Chars(<<"January", "February", "March", "April", "May", "June", "July",
            "August", "September", "October", "November", "December">>[m])

\* format("%B %e, %Y")
FormatLongDate(day) ==
    MonthName(Civil(day).month) \o <<" ">> \o PadLeft(ToDec(Civil(day).day), 2, " ")
        \o Chars(", ") \o PadLeft(ToDec(Civil(day).year), 4, "0")

\* format("%B %Y")
FormatMonthYear(day) ==
    MonthName(Civil(day).month) \o <<" ">> \o PadLeft(ToDec(Civil(day).year), 4, "0")

\* format("ch-%Y-%m")
FormatChapterName(day) ==
    Chars("ch-") \o PadLeft(ToDec(Civil(day).year), 4, "0") \o <<"-">>
        \o PadLeft(ToDec(Civil(day).month), 2, "0")

Dates == {FirstDay + k * DayStride : k \in 0..MaxDateIdx}

----------------------------------------------------------------------------
(* LatexMessage and render_message *)

None == [some |-> FALSE, val |-> <<>>]
Some(v) == [some |-> TRUE, val |-> v]

\* BubbleType: Text(text), Attachment, and every other variant as Other
TextPart(t) == [kind |-> "Text", text |-> t]
AttachmentPart == [kind |-> "Attachment", text |-> <<>>]
OtherPart == [kind |-> "Other", text |-> <<>>]

\* the content of a message block: the escaped text and the attachment badge
ContentAlwaysSeparated(m, results) ==
    LET content == IF m.body_text.some THEN latex_escape(m.body_text.val, results)
                   ELSE <<>>
    IN  IF m.attachment_count > 0
        THEN content \o Chars("\\enskip")
               \o Chars("\\fbox{") \o ToDec(m.attachment_count)
               \o Chars(" Attachment")
               \o (IF m.attachment_count = 1 THEN <<>> ELSE <<"s">>)
               \o <<"}">>
        ELSE content

Content(m, results) ==
    LET content == IF m.body_text.some THEN latex_escape(m.body_text.val, results)
                   ELSE <<>>
    IN  IF m.attachment_count > 0
        THEN content
               \o (IF content # <<>> THEN Chars("\\enskip") ELSE <<>>)
               \o Chars("\\fbox{") \o ToDec(m.attachment_count)
               \o Chars(" Attachment")
               \o (IF m.attachment_count = 1 THEN <<>> ELSE <<"s">>)
               \o <<"}">>
        ELSE content

\* LatexMessage::render
Render(m, extra_space, results) ==
    Chars("\\markright{") \o FormatLongDate(m.date) \o <<"}", NL>>
      \o (IF extra_space THEN Chars("\\insertextraspace") \o <<NL>> ELSE <<>>)
      \o (IF m.is_from_me THEN Chars("\\leftmsg{") ELSE Chars("\\rightmsg{"))
      \o Content(m, results) \o <<"}", NL, NL>>

\* the loop of render_message over msg.body(), parts[1..i] done
RECURSIVE DecomposeCountAll(_, _, _)
DecomposeCountAll(m, parts, i) ==
    IF i = 0 THEN m
    ELSE LET before == DecomposeCountAll(m, parts, i - 1)
         IN  IF parts[i].kind = "Text"
             THEN [before EXCEPT !.body_text = Some(parts[i].text)]
             ELSE [before EXCEPT !.attachment_count = @ + 1]

RECURSIVE Decompose(_, _, _)
Decompose(m, parts, i) ==
    IF i = 0 THEN m
    ELSE LET before == Decompose(m, parts, i - 1)
         IN  CASE parts[i].kind = "Text" ->
                    [before EXCEPT !.body_text = Some(parts[i].text)]
               [] parts[i].kind = "Attachment" ->
                    [before EXCEPT !.attachment_count = @ + 1]
               [] OTHER -> before

\* latex_msg of render_message after its loop
LatexMessageOf(m) ==
    Decompose([is_from_me |-> m.is_from_me, body_text |-> None,
               attachment_count |-> 0, date |-> m.date],
              m.parts, Len(m.parts))

render_message(m, extra_space, results) ==
    Render(LatexMessageOf(m), extra_space, results)

NoMsg == [is_from_me |-> FALSE, date |-> 0, parts |-> <<>>]
NoLatexMsg == [is_from_me |-> FALSE, body_text |-> None,
               attachment_count |-> 0, date |-> 0]

RenderIdle ==
    /\ msg = NoMsg
    /\ insert_extra_space = FALSE
    /\ latex_msg = NoLatexMsg
    /\ rendered = <<>>

EscapeIdle ==
    /\ text = <<>>
    /\ fetched = <<>>
    /\ escaped = <<>>

\* no chapter file
NoFiles == [name \in {} |-> <<>>]

\* iter_messages not called
RunIdle ==
    /\ chat_identifier = ""
    /\ message_table = <<>>
    /\ chat_ids = <<>>
    /\ msgs = <<>>
    /\ filtered_msgs = <<>>
    /\ messages_json = None
    /\ chapters = <<>>
    /\ current_output_info = None
    /\ files = NoFiles
    /\ done = 0
    /\ main_template = <<>>
    /\ main_tex = None
    /\ copied = {}
    /\ failure = ""

PartSet ==
    { TextPart(<<>>), TextPart(<<"a">>), TextPart(<<"b", "$">>),
      AttachmentPart, OtherPart }

InitRender ==
    /\ pc = "render_message"
    /\ msg \in [is_from_me : BOOLEAN, date : {FirstDay},
                parts : SeqsUpTo(PartSet, MaxParts)]
    /\ insert_extra_space \in BOOLEAN
    /\ latex_msg = NoLatexMsg
    /\ rendered = <<>>
    /\ EscapeIdle
    /\ RunIdle

\* render_message up to the end of its loop
RenderMessageParts ==
    /\ pc = "render_message"
    /\ latex_msg' = LatexMessageOf(msg)
    /\ pc' = "render"
    /\ UNCHANGED <<msg, insert_extra_space, rendered, escapeVars, runVars>>

\* latex_msg.render(insert_extra_space)
RenderLatexMessage ==
    /\ pc = "render"
    /\ rendered' = Render(latex_msg, insert_extra_space, <<>>)
    /\ pc' = "rendered"
    /\ UNCHANGED <<msg, insert_extra_space, latex_msg, escapeVars, runVars>>

NextRender == RenderMessageParts \/ RenderLatexMessage

SpecRender == InitRender /\ [][NextRender]_vars

----------------------------------------------------------------------------
(* latex_escape on bounded inputs *)

\* the pieces an input text is put together from
EscapeAlphabet ==
    { <<"\\">>, <<"$">>, <<"%">>, <<"&">>, <<"_">>, <<"^">>, <<"~">>, <<"#">>,
      <<"{">>, <<"}">>, <<NL>>, <<VS16>>, <<RSQUO>>, <<LSQUO>>, <<LDQUO>>,
      <<RDQUO>>, <<ELLIPSIS>>, <<EMOJI1>>, <<"a">>, <<" ">>, Chars("http://") }

\* the example text of the specification's testable properties
ExampleText == Chars("Cost: $5 & 10% off_now")

RECURSIVE Flatten(_)
Flatten(ss) == IF ss = <<>> THEN <<>> ELSE Head(ss) \o Flatten(Tail(ss))

Texts(alphabet, n) == {Flatten(ss) : ss \in SeqsUpTo(alphabet, n)}

EscapeTitles == {FetchErr, FetchSome(Chars("T_"))}

InitEscape ==
    /\ pc = "escape"
    /\ text \in Texts(EscapeAlphabet, MaxTextLen) \cup {ExampleText}
    /\ fetched \in [1..Len(FindUrls(text, 1)) -> EscapeTitles]
    /\ escaped = <<>>
    /\ RenderIdle
    /\ RunIdle

LatexEscape ==
    /\ pc = "escape"
    /\ escaped' = latex_escape(text, fetched)
    /\ pc' = "escaped"
    /\ UNCHANGED <<text, fetched, renderVars, runVars>>

NextEscape == LatexEscape

SpecEscape == InitEscape /\ [][NextEscape]_vars

\* link annotation: texts with URLs, and the titles a fetch may give
LinkAlphabet ==
    { Chars("http://"), Chars("https://b"), <<"a">>, <<"/">>, <<" ">> }

LinkTitles ==
    { Chars("Hi"), Chars("404"), Chars("Error 404"), Chars("403 Forbidden"),
      Chars("blocked"), <<"a", TAB, "b">> }

FetchOutcomes == {FetchErr, FetchNone} \cup {FetchSome(t) : t \in LinkTitles}

InitLink ==
    /\ pc = "escape"
    /\ text \in Texts(LinkAlphabet, MaxLinkLen)
    /\ fetched \in [1..Len(FindUrls(text, 1)) -> FetchOutcomes]
    /\ escaped = <<>>
    /\ RenderIdle
    /\ RunIdle

NextLink == LatexEscape

SpecLink == InitLink /\ [][NextLink]_vars

----------------------------------------------------------------------------
(* iter_messages: the message store *)

\* the rows of the chat table: two records share one identifier
ChatTable ==
    << [rowid |-> 1, chat_identifier |-> "+15550001"],
       [rowid |-> 2, chat_identifier |-> "+15550002"],
       [rowid |-> 3, chat_identifier |-> "+15550001"] >>

\* LIMIT of the messages query
RowLimit == 100000

\* Message::is_reaction, is_announcement, is_shareplay of the message
\* store's library, on the columns they read
is_reaction(m) ==
    m.associated_message_type \in (2000..2005) \cup (3000..3005)
is_announcement(m) == m.group_action_type # 0
is_shareplay(m) == m.item_type = 6

\* the columns of an ordinary message
Ordinary == [item_type |-> 0, group_action_type |-> 0, associated_message_type |-> 0]

\* a row of the messages query: decodes says whether Message::from_row
\* succeeds on it, text_ok whether gen_text does, date_ok whether date does
RowOf(a, i) ==
    [rowid |-> i, chat_id |-> a.chat_id, date |-> a.date,
     is_from_me |-> a.is_from_me, item_type |-> a.kind.item_type,
     group_action_type |-> a.kind.group_action_type,
     associated_message_type |-> a.kind.associated_message_type,
     decodes |-> a.decodes, text_ok |-> a.text_ok, date_ok |-> a.date_ok,
     parts |-> <<TextPart(ToDec(i))>>]

\* the tables of at most n rows with the given columns, in date order
TablesOf(attrs, max) ==
    UNION { { [i \in 1..n |-> RowOf(t[i], i)] :
                t \in {u \in [1..n -> attrs] :
                         \A i \in 1..(n - 1) : u[i].date <= u[i + 1].date} } :
            n \in 0..max }

----------------------------------------------------------------------------
(* iter_messages: resolving, retrieving and filtering *)

\* lines 169-176: the ids of the chats with the identifier
ResolveAll(table, identifier) == [i \in 1..Len(table) |-> table[i].rowid]

Resolve(table, identifier) ==
    LET chats == SelectSeq(table, LAMBDA c : c.chat_identifier = identifier)
    IN  [i \in 1..Len(chats) |-> chats[i].rowid]

Take(s, n) == IF Len(s) <= n THEN s ELSE SubSeq(s, 1, n)

\* lines 182-215: the rows of the chats, at most RowLimit of them, without
\* those Message::from_row fails on
Query(table, ids) ==
    LET joined == SelectSeq(table,
                      LAMBDA r : \E k \in 1..Len(ids) : ids[k] = r.chat_id)
    IN  SelectSeq(Take(joined, RowLimit), LAMBDA r : r.decodes)

\* line 225
KeptNoShareplay(m) == ~is_reaction(m) /\ ~is_announcement(m)
Kept(m) == ~is_reaction(m) /\ ~is_announcement(m) /\ ~is_shareplay(m)

\* lines 224-226
ContentFilter(ms) == SelectSeq(ms, Kept)

JsonBool(b) == IF b THEN Chars("true") ELSE Chars("false")

\* serde_json of a SerializableMessage, on the columns of the model
JsonMessage(m) ==
    Chars("{\"rowid\":") \o ToDec(m.rowid)
      \o Chars(",\"date\":") \o ToDec(m.date)
      \o Chars(",\"is_from_me\":") \o JsonBool(m.is_from_me)
      \o Chars(",\"item_type\":") \o ToDec(m.item_type)
      \o Chars(",\"group_action_type\":") \o ToDec(m.group_action_type)
      \o Chars(",\"associated_message_type\":") \o ToDec(m.associated_message_type)
      \o Chars(",\"chat_id\":") \o ToDec(m.chat_id) \o <<"}">>

RECURSIVE JsonList(_)
JsonList(ms) ==
    IF ms = <<>> THEN <<>>
    ELSE IF Len(ms) = 1 THEN JsonMessage(ms[1])
    ELSE JsonMessage(ms[1]) \o <<",">> \o JsonList(Tail(ms))

\* lines 228-233
ToJson(ms) == <<"[">> \o JsonList(ms) \o <<"]">>

----------------------------------------------------------------------------
(* iter_messages: the chapter loop *)

\* lines 249-252
NeedsCreateFirstOnly(current, chapter_name) == ~current.some
NeedsCreate(current, chapter_name) == ~current.some \/ current.val # chapter_name

\* line 272
InsertExtraSpace(m) == FALSE

\* File::create and the heading written to the new file
CreateFile(fs, name, heading) ==
    [n \in DOMAIN fs \cup {name} |-> IF n = name THEN <<heading>> ELSE fs[n]]

\* lines 245-289 for a message whose date decodes, on the loop's state
ChapterStep(st, m) ==
    LET chapter_name == FormatChapterName(m.date)
        opened ==
            IF NeedsCreate(st.current, chapter_name)
            THEN [chapters |-> Append(st.chapters, chapter_name),
                  current |-> Some(chapter_name),
                  files |-> CreateFile(st.files, chapter_name,
                                Chars("\\chapter{") \o FormatMonthYear(m.date)
                                  \o <<"}", NL, NL>>)]
            ELSE st
    IN  IF m.text_ok
        THEN [opened EXCEPT !.files[opened.current.val] =
                 Append(@, render_message(m, InsertExtraSpace(m), <<>>))]
        ELSE opened

\* the loop over a whole list, from the state st
RECURSIVE ChapterLoop(_, _)
ChapterLoop(st, ms) ==
    IF ms = <<>> THEN st ELSE ChapterLoop(ChapterStep(st, Head(ms)), Tail(ms))

LoopStart == [chapters |-> <<>>, current |-> None, files |-> NoFiles]

----------------------------------------------------------------------------
(* iter_messages: the root manuscript *)

\* a main.tex.template with the placeholders the code looks for
TemplateHead ==
    Chars("\\title{iMessage Book}") \o <<NL>>
      \o Chars("ALL RIGHTS RESERVED") \o <<NL>>
      \o Chars("\\begin{center}") \o <<NL>>
      \o Chars("  \\textit{Dedicated to you.}") \o <<NL>>
      \o Chars("\\end{center}") \o <<NL>>

Templates == {TemplateHead \o Chars("\\mainmatter") \o <<NL>>, TemplateHead}

Configs ==
    [title : {Chars("T")}, copyright : {Chars("C")},
     dedication_title : {Chars("D")}, dedication_message : {Chars("M")},
     preface : {None, Some(Chars("P"))}]

\* lines 305-320
Substitute(template, config) ==
    LET r1 == Replace(template, Chars("iMessage Book"), config.title)
        r2 == Replace(r1, Chars("ALL RIGHTS RESERVED"), config.copyright)
        r3 == Replace(r2,
                 Chars("\\begin{center}") \o <<NL>>
                   \o Chars("  \\textit{Dedicated to you.}") \o <<NL>>
                   \o Chars("\\end{center}"),
                 Chars("\\begin{center}") \o <<NL>> \o Chars("  \\textit{")
                   \o config.dedication_title \o <<"}", NL>>
                   \o Chars("\\end{center}") \o <<NL>>
                   \o Chars("\\begin{center}") \o <<NL>> \o Chars("  \\textit{")
                   \o config.dedication_message \o <<"}", NL>>
                   \o Chars("\\end{center}"))
        pos == Find(r3, Chars("\\mainmatter"))
    IN  IF config.preface.some /\ pos > 0
        THEN SubSeq(r3, 1, pos - 1)
               \o Chars("\\chapter*{Preface}") \o <<NL>> \o config.preface.val
               \o <<NL>> \o Chars("\\mainmatter") \o <<NL>>
               \o SubSeq(r3, pos, Len(r3))
        ELSE r3

\* lines 329-333
IncludesReversed(names) ==
    [i \in 1..Len(names) |->
        Chars("\\include{") \o names[Len(names) + 1 - i] \o <<"}", NL>>]

Includes(names) ==
    [i \in 1..Len(names) |-> Chars("\\include{") \o names[i] \o <<"}", NL>>]

----------------------------------------------------------------------------
(* iter_messages: the run *)

Panic(why) ==
    /\ pc' = "panicked"
    /\ failure' = why

\* line 166: the connection opens, or the unwrap panics
GetConnection ==
    /\ pc = "get_connection"
    /\ \/ /\ pc' = "chats"
          /\ UNCHANGED failure
       \/ Panic("get_connection")
    /\ UNCHANGED <<escapeVars, renderVars, inputVars, queryVars, loopVars, rootVars>>

\* lines 168-176: Chat::get returns an error, or the chats are resolved
ResolveChats ==
    /\ pc = "chats"
    /\ \/ /\ pc' = "returned_err"
          /\ failure' = "Chat::get"
          /\ UNCHANGED chat_ids
       \/ /\ pc' = "query"
          /\ chat_ids' = Resolve(ChatTable, chat_identifier)
          /\ UNCHANGED failure
    /\ UNCHANGED <<escapeVars, renderVars, inputVars, msgs, filtered_msgs,
                   messages_json, loopVars, rootVars>>

\* lines 181-215
QueryMessages ==
    /\ pc = "query"
    /\ msgs' = Query(message_table, chat_ids)
    /\ pc' = "filter"
    /\ UNCHANGED <<escapeVars, renderVars, inputVars, chat_ids, filtered_msgs,
                   messages_json, loopVars, rootVars, failure>>

\* lines 224-226
FilterMessages ==
    /\ pc = "filter"
    /\ filtered_msgs' = ContentFilter(msgs)
    /\ pc' = "json"
    /\ UNCHANGED <<escapeVars, renderVars, inputVars, chat_ids, msgs,
                   messages_json, loopVars, rootVars, failure>>

\* lines 228-235
WriteJson ==
    /\ pc = "json"
    /\ messages_json' = Some(ToJson(filtered_msgs))
    /\ pc' = "loop"
    /\ UNCHANGED <<escapeVars, renderVars, inputVars, chat_ids, msgs,
                   filtered_msgs, loopVars, rootVars, failure>>

\* lines 242-244: the date of the next message does not decode
LoopDatePanic ==
    /\ pc = "loop"
    /\ done < Len(filtered_msgs)
    /\ ~filtered_msgs[done + 1].date_ok
    /\ Panic("date")
    /\ UNCHANGED <<escapeVars, renderVars, inputVars, queryVars, loopVars, rootVars>>

\* lines 241-290: one pass of the loop
LoopMessage ==
    /\ pc = "loop"
    /\ done < Len(filtered_msgs)
    /\ filtered_msgs[done + 1].date_ok
    /\ LET st == ChapterStep([chapters |-> chapters,
                              current |-> current_output_info,
                              files |-> files],
                             filtered_msgs[done + 1])
       IN  /\ chapters' = st.chapters
           /\ current_output_info' = st.current
           /\ files' = st.files
    /\ done' = done + 1
    /\ UNCHANGED <<pc, escapeVars, renderVars, inputVars, queryVars, rootVars,
                   failure>>

\* lines 293-320: the template is read and substituted, or the expect panics
ReadTemplate ==
    /\ pc = "loop"
    /\ done = Len(filtered_msgs)
    /\ \/ /\ \E template \in Templates, config \in Configs :
                main_template' = Substitute(template, config)
          /\ pc' = "main_tex"
          /\ UNCHANGED failure
       \/ /\ Panic("template")
          /\ UNCHANGED main_template
    /\ UNCHANGED <<escapeVars, renderVars, inputVars, queryVars, loopVars,
                   main_tex, copied>>

\* lines 322-333: main.tex with the template and the includes
WriteMainTex ==
    /\ pc = "main_tex"
    /\ main_tex' = Some(<<main_template>> \o Includes(chapters))
    /\ pc' = "font"
    /\ UNCHANGED <<escapeVars, renderVars, inputVars, queryVars, loopVars,
                   main_template, copied, failure>>

\* lines 336-339: the font is copied, or the expect panics
CopyFont ==
    /\ pc = "font"
    /\ \/ /\ copied' = copied \cup {"NotoEmoji-Medium.ttf"}
          /\ pc' = "end_document"
          /\ UNCHANGED failure
       \/ /\ Panic("font")
          /\ UNCHANGED copied
    /\ UNCHANGED <<escapeVars, renderVars, inputVars, queryVars, loopVars,
                   main_template, main_tex>>

\* lines 343-345
EndDocument ==
    /\ pc = "end_document"
    /\ main_tex' = Some(Append(main_tex.val, Chars("\\end{document}")))
    /\ pc' = "makefile"
    /\ UNCHANGED <<escapeVars, renderVars, inputVars, queryVars, loopVars,
                   main_template, copied, failure>>

\* lines 348-354: the makefile is copied and the run returns Ok, or the
\* expect panics
CopyMakefile ==
    /\ pc = "makefile"
    /\ \/ /\ copied' = copied \cup {"Makefile"}
          /\ pc' = "returned"
          /\ UNCHANGED failure
       \/ /\ Panic("makefile")
          /\ UNCHANGED copied
    /\ UNCHANGED <<escapeVars, renderVars, inputVars, queryVars, loopVars,
                   main_template, main_tex>>

Next ==
    \/ GetConnection
    \/ ResolveChats
    \/ QueryMessages
    \/ FilterMessages
    \/ WriteJson
    \/ LoopDatePanic
    \/ LoopMessage
    \/ ReadTemplate
    \/ WriteMainTex
    \/ CopyFont
    \/ EndDocument
    \/ CopyMakefile

\* the state iter_messages starts in
RunStart ==
    /\ pc = "get_connection"
    /\ chat_ids = <<>>
    /\ msgs = <<>>
    /\ filtered_msgs = <<>>
    /\ messages_json = None
    /\ chapters = <<>>
    /\ current_output_info = None
    /\ files = NoFiles
    /\ done = 0
    /\ main_template = <<>>
    /\ main_tex = None
    /\ copied = {}
    /\ failure = ""
    /\ EscapeIdle
    /\ RenderIdle

\* one conversation of ordinary messages: a message may have no text, the
\* earliest ones may have no date or be rows that do not decode
ChapterRows ==
    { [chat_id |-> 1, date |-> d, is_from_me |-> f[1], kind |-> Ordinary,
       decodes |-> TRUE, text_ok |-> f[2], date_ok |-> TRUE] :
        d \in Dates,
        f \in {<<TRUE, TRUE>>, <<FALSE, TRUE>>, <<FALSE, FALSE>>} }
      \cup
    { [chat_id |-> 1, date |-> FirstDay, is_from_me |-> FALSE, kind |-> Ordinary,
       decodes |-> f[1], text_ok |-> TRUE, date_ok |-> f[2]] :
        f \in {<<FALSE, TRUE>>, <<TRUE, FALSE>>} }

Init ==
    /\ chat_identifier = "+15550001"
    /\ message_table \in TablesOf(ChapterRows, MaxRows)
    /\ RunStart

Spec == Init /\ [][Next]_vars

\* several conversations and every kind of message
Kinds ==
    { Ordinary,
      [item_type |-> 0, group_action_type |-> 0, associated_message_type |-> 2000],
      [item_type |-> 0, group_action_type |-> 1, associated_message_type |-> 0],
      [item_type |-> 6, group_action_type |-> 0, associated_message_type |-> 0] }

FilterRows ==
    { [chat_id |-> c, date |-> FirstDay, is_from_me |-> TRUE, kind |-> k,
       decodes |-> TRUE, text_ok |-> TRUE, date_ok |-> TRUE] :
        c \in {1, 2, 3}, k \in Kinds }
      \cup
    { [chat_id |-> 1, date |-> FirstDay + DayStride, is_from_me |-> TRUE,
       kind |-> k, decodes |-> TRUE, text_ok |-> TRUE, date_ok |-> TRUE] :
        k \in Kinds }
      \cup
    { [chat_id |-> 1, date |-> FirstDay + DayStride, is_from_me |-> TRUE,
       kind |-> Ordinary, decodes |-> f[1], text_ok |-> TRUE, date_ok |-> f[2]] :
        f \in {<<FALSE, TRUE>>, <<TRUE, FALSE>>} }

InitFilter ==
    /\ chat_identifier \in {"+15550001", "+15550009"}
    /\ message_table \in TablesOf(FilterRows, MaxFilterRows)
    /\ RunStart

SpecFilter == InitFilter /\ [][Next]_vars

----------------------------------------------------------------------------
(* Properties of latex_escape *)

ControlChars == {"\\", "$", "%", "&", "_", "^", "~", "#", "{", "}"}

\* what one character of the input becomes when escaped on its own
EscapedChar(c) ==
    CASE c = "\\" -> Chars("\\textbackslash\\ ")
      [] c = "^" -> Chars("\\textasciicircum\\ ")
      [] c = "~" -> Chars("\\textasciitilde\\ ")
      [] c \in {"$", "%", "&", "_", "#", "{", "}"} -> <<"\\", c>>
      [] c = NL -> Chars("\\newline") \o <<NL>>
      [] c = VS16 -> <<>>
      [] c = RSQUO -> <<"'">>
      [] c \in {LDQUO, RDQUO} -> <<"\"">>
      [] c = ELLIPSIS -> Chars("...")
      [] OTHER -> <<c>>

RECURSIVE EscapedOnce(_)
EscapedOnce(s) ==
    IF s = <<>> THEN <<>> ELSE EscapedChar(Head(s)) \o EscapedOnce(Tail(s))

\* the escape sequences of the output
EscapeSequences ==
    {EscapedChar(c) : c \in ControlChars} \cup {Chars("\\newline")}

\* s from index i on holds control characters only inside escape sequences
\* and as the braces of an emoji group; open: inside an emoji group
RECURSIVE WellEscapedFrom(_, _, _)
WellEscapedFrom(s, i, open) ==
    IF i > Len(s) THEN ~open
    ELSE IF \E e \in EscapeSequences : StartsWithAt(s, i, e)
         THEN /\ ~open
              /\ WellEscapedFrom(s,
                     i + Len(CHOOSE e \in EscapeSequences : StartsWithAt(s, i, e)),
                     open)
    ELSE IF StartsWithAt(s, i, Chars("{\\emojifont "))
         THEN /\ ~open
              /\ i + 12 <= Len(s)
              /\ IsPictographic(s[i + 12])
              /\ WellEscapedFrom(s, i + 12, TRUE)
    ELSE IF s[i] = "}"
         THEN /\ open
              /\ IsPictographic(s[i - 1])
              /\ WellEscapedFrom(s, i + 1, FALSE)
    ELSE IF s[i] \in ControlChars THEN FALSE
    ELSE /\ open => IsPictographic(s[i])
         /\ WellEscapedFrom(s, i + 1, open)

Range(s) == {s[i] : i \in 1..Len(s)}

HasUrl(s) == FindUrls(s, 1) # <<>>
HasEmoji(s) == \E c \in Range(s) : IsPictographic(c)

\* C3: the output of latex_escape holds no unescaped markup-control
\* character; on a text without URL and emoji it is the text with every
\* character escaped exactly once (no escape sequence is escaped again); the
\* example text yields the escaped forms.
C3_EscapedOnce ==
    pc = "escaped" =>
        /\ WellEscapedFrom(escaped, 1, FALSE)
        /\ (~HasUrl(text) /\ ~HasEmoji(text)) => escaped = EscapedOnce(text)
        /\ text = ExampleText =>
               escaped = Chars("Cost: \\$5 \\& 10\\% off\\_now")

C3_Witness ==
    /\ pc = "escaped"
    /\ text = <<"\\", "$", "{">>
    /\ escaped = Chars("\\textbackslash\\ \\$\\{")

\* what smart-character normalization alone makes of a text
SmartChar(c) ==
    CASE c = RSQUO -> <<"'">>
      [] c \in {LDQUO, RDQUO} -> <<"\"">>
      [] c = ELLIPSIS -> Chars("...")
      [] OTHER -> <<c>>

RECURSIVE SmartNormalized(_)
SmartNormalized(s) ==
    IF s = <<>> THEN <<>> ELSE SmartChar(Head(s)) \o SmartNormalized(Tail(s))

PlainText(s) == Range(s) \cap ControlChars = {} /\ ~HasUrl(s) /\ ~HasEmoji(s)

\* C4 as stated: a text without control character, URL and emoji comes back
\* unchanged except for smart-character normalization.
C4_Original ==
    (pc = "escaped" /\ PlainText(text)) => escaped = SmartNormalized(text)

\* C4 amended: a text without control character, URL, emoji, newline and
\* variation selector comes back with only the smart characters U+2019,
\* U+201C, U+201D, U+2026 replaced by their ASCII equivalents.
C4_PlainUnchanged ==
    (pc = "escaped" /\ PlainText(text) /\ NL \notin Range(text)
        /\ VS16 \notin Range(text))
      => escaped = SmartNormalized(text)

C4_Witness ==
    /\ pc = "escaped"
    /\ text = <<LDQUO, "a", ELLIPSIS>>
    /\ escaped = Chars("\"a...")

\* a title with an exclusion-list entry in it
Excluded(title) == \E u \in undesired_titles : Contains(title, u)

NoTitle(r) == r.res \in {"Err", "None"} \/ (r.res = "Some" /\ Excluded(r.title))

\* C7: when every fetch fails, finds no title or finds a title with an
\* exclusion-list entry in it, the output is the output of the run in which
\* every fetch fails, and every URL shows as the host-only annotation.
C7_ExcludedAsFailed ==
    (pc = "escaped" /\ \A i \in 1..Len(fetched) : NoTitle(fetched[i])) =>
        /\ escaped = latex_escape(text, <<>>)
        /\ ~Contains(escaped, Chars(", "))
        /\ \A i \in 1..Len(FindUrls(text, 1)) :
              LET m == FindUrls(text, 1)[i]
              IN  Contains(escaped,
                      Chars("(link: ")
                        \o Split(SubSeq(text, m[1], m[2]), "/")[3]
                        \o Chars(")"))

C7_Witness ==
    /\ pc = "escaped"
    /\ text = Chars("a https://b")
    /\ fetched = <<FetchSome(Chars("Error 404"))>>
    /\ escaped = Chars("a (link: b)")

----------------------------------------------------------------------------
(* Properties of LatexMessage::render and render_message *)

EndsWith(s, p) == Len(p) <= Len(s) /\ SubSeq(s, Len(s) - Len(p) + 1, Len(s)) = p

\* the argument of \leftmsg or \rightmsg in a rendered block
ContentOf(block) ==
    LET k == Min({i \in 1..(Len(block) - 3) :
                    /\ block[i] = "m"
                    /\ block[i + 1] = "s"
                    /\ block[i + 2] = "g"
                    /\ block[i + 3] = "{"})
    IN  SubSeq(block, k + 4, Len(block) - 3)

\* the escaped text of latex_msg
BodyOf(m) == IF m.body_text.some THEN EscapedOnce(m.body_text.val) ELSE <<>>

Badge(n) ==
    Chars("\\fbox{") \o ToDec(n)
      \o (IF n = 1 THEN Chars(" Attachment}") ELSE Chars(" Attachments}"))

\* C5: the badge is there exactly when attachment_count > 0, labelled
\* "Attachment" for 1 and "Attachments" otherwise, with \enskip before it
\* only when the escaped text is not empty; two attachments and no text give
\* exactly the badge "2 Attachments".
C5_AttachmentBadge ==
    pc = "rendered" =>
        LET content == ContentOf(rendered)
            n == latex_msg.attachment_count
        IN  /\ Contains(content, Chars("\\fbox{")) <=> n > 0
            /\ n = 0 => content = BodyOf(latex_msg)
            /\ n > 0 => EndsWith(content, Badge(n))
            /\ (n > 0 /\ BodyOf(latex_msg) # <<>>) =>
                   content = BodyOf(latex_msg) \o Chars("\\enskip") \o Badge(n)
            /\ (n > 0 /\ BodyOf(latex_msg) = <<>>) => content = Badge(n)
            /\ (n = 2 /\ BodyOf(latex_msg) = <<>>) =>
                   content = Chars("\\fbox{2 Attachments}")

C5_Witness ==
    /\ pc = "rendered"
    /\ latex_msg.attachment_count = 2
    /\ latex_msg.body_text = Some(<<>>)
    /\ ContentOf(rendered) = Chars("\\fbox{2 Attachments}")

TextsOf(parts) == SelectSeq(parts, LAMBDA p : p.kind = "Text")
AttachmentsOf(parts) == SelectSeq(parts, LAMBDA p : p.kind = "Attachment")

\* C10 as stated: of several Text segments body_text is the first.
C10_Original ==
    pc \in {"render", "rendered"} =>
        /\ latex_msg.attachment_count = Len(AttachmentsOf(msg.parts))
        /\ latex_msg.body_text.some <=> TextsOf(msg.parts) # <<>>
        /\ TextsOf(msg.parts) # <<>> =>
               latex_msg.body_text = Some(TextsOf(msg.parts)[1].text)

\* C10 amended: attachment_count is the number of Attachment segments,
\* body_text is null exactly when there is no Text segment, Other segments
\* change neither, and of several Text segments body_text is the last.
C10_LastTextWins ==
    pc \in {"render", "rendered"} =>
        /\ latex_msg.attachment_count = Len(AttachmentsOf(msg.parts))
        /\ latex_msg.body_text.some <=> TextsOf(msg.parts) # <<>>
        /\ TextsOf(msg.parts) # <<>> =>
               latex_msg.body_text
                   = Some(TextsOf(msg.parts)[Len(TextsOf(msg.parts))].text)
        /\ latex_msg.is_from_me = msg.is_from_me
        /\ latex_msg.date = msg.date

C10_Witness ==
    /\ pc = "render"
    /\ msg.parts = <<TextPart(<<"a">>), OtherPart, TextPart(<<"b", "$">>)>>
    /\ latex_msg.body_text = Some(<<"b", "$">>)
    /\ latex_msg.attachment_count = 0

----------------------------------------------------------------------------
(* Properties of iter_messages *)

\* the loop has been entered
InLoopOrAfter ==
    \/ pc \in {"loop", "main_tex", "font", "end_document", "makefile", "returned"}
    \/ pc = "panicked" /\ failure \in {"date", "template", "font", "makefile"}

\* the loop has run to its end
AfterLoop ==
    \/ pc \in {"main_tex", "font", "end_document", "makefile", "returned"}
    \/ pc = "panicked" /\ failure \in {"template", "font", "makefile"}

NoDuplicates(q) == \A i, j \in 1..Len(q) : q[i] = q[j] => i = j

\* the message blocks of a chapter file: its writes after the heading
BlocksOf(name) == Tail(files[name])

\* the messages the blocks of a chapter file are of, by their text
MessagesIn(name) ==
    [i \in 1..Len(BlocksOf(name)) |-> ContentOf(BlocksOf(name)[i])]

\* the concatenation of the sequences qs[1..k]
RECURSIVE Concat(_, _)
Concat(qs, k) == IF k = 0 THEN <<>> ELSE Concat(qs, k - 1) \o qs[k]

\* the messages of the chapter files, file by file in chapter-emission order
MessagesByChapter == [k \in 1..Len(chapters) |-> MessagesIn(chapters[k])]

TextsOfRows(ms) == [i \in 1..Len(ms) |-> ToDec(ms[i].rowid)]

NonDecreasing(ms) == \A i \in 1..(Len(ms) - 1) : ms[i].date <= ms[i + 1].date

\* C1 as stated: after the loop the blocks of the chapter files, in
\* chapter-emission order, are the filtered messages, each once, and no
\* chapter is opened twice.
C1_Original ==
    (AfterLoop /\ NonDecreasing(filtered_msgs)) =>
        /\ Concat(MessagesByChapter, Len(chapters)) = TextsOfRows(filtered_msgs)
        /\ NoDuplicates(chapters)

\* C1 amended: at every point of the loop and after it, the blocks of the
\* chapter files in chapter-emission order are the messages the loop is
\* through with whose gen_text succeeded, in order and each once; every
\* block is in the file of its message's month; every chapter file belongs
\* to one entry of chapters, starts with its heading, and no chapter is
\* opened twice.
C1_Partition ==
    (InLoopOrAfter /\ NonDecreasing(filtered_msgs)) =>
        LET written == SelectSeq(SubSeq(filtered_msgs, 1, done),
                                 LAMBDA m : m.text_ok)
            by_chapter == MessagesByChapter
        IN  /\ Concat(by_chapter, Len(chapters)) = TextsOfRows(written)
            /\ \A k \in 1..Len(chapters) :
                  by_chapter[k] =
                     TextsOfRows(SelectSeq(written,
                        LAMBDA m : FormatChapterName(m.date) = chapters[k]))
            /\ NoDuplicates(chapters)
            /\ DOMAIN files = Range(chapters)
            /\ \A name \in DOMAIN files :
                  StartsWithAt(files[name][1], 1, Chars("\\chapter{"))

C1_Witness ==
    /\ pc = "main_tex"
    /\ Len(filtered_msgs) = 3
    /\ ~filtered_msgs[2].text_ok
    /\ Len(chapters) = 2
    /\ Concat(MessagesByChapter, 2) = <<<<"1">>, <<"3">>>>
    /\ MessagesIn(chapters[2]) = <<<<"3">>>>

HasSpacing(block) == Contains(block, Chars("\\insertextraspace"))
FromMe(block) == Contains(block, Chars("\\leftmsg{"))

\* C2: a block has the spacing directive exactly when the block before it in
\* the same chapter file is of the same sender; the first block of a chapter
\* has none.
C2_SpacingDirective ==
    \A name \in DOMAIN files :
        \A j \in 1..Len(BlocksOf(name)) :
            HasSpacing(BlocksOf(name)[j]) <=>
                (j > 1 /\ FromMe(BlocksOf(name)[j]) = FromMe(BlocksOf(name)[j - 1]))

AssetOrSourceFailures == {"get_connection", "template", "font", "makefile"}

\* C6: with an identifier no conversation record has, the run does not fail
\* on its own account, and when it returns the snapshot is the empty list,
\* there is no chapter file, and main.tex is the substituted template and
\* the document end.
C6_NoConversation ==
    (\A i \in 1..Len(ChatTable) :
         ChatTable[i].chat_identifier # chat_identifier) =>
        /\ pc = "panicked" => failure \in AssetOrSourceFailures
        /\ pc = "returned" =>
              /\ messages_json = Some(Chars("[]"))
              /\ files = NoFiles
              /\ chapters = <<>>
              /\ main_template \in
                    {Substitute(t, c) : t \in Templates, c \in Configs}
              /\ main_tex = Some(<<main_template, Chars("\\end{document}")>>)
              /\ copied = {"NotoEmoji-Medium.ttf", "Makefile"}

C6_Witness ==
    /\ pc = "returned"
    /\ chat_identifier = "+15550009"
    /\ Len(message_table) = 2
    /\ messages_json = Some(Chars("[]"))
    /\ Len(main_tex.val) = 2

\* C8: only an unreachable data source or a missing asset ends the run
\* early, and a message that fails leaves the chapter files and main.tex as
\* they would be had it not been in the stream.
C8_FailuresIsolated ==
    LET good == SelectSeq(filtered_msgs, LAMBDA m : m.text_ok /\ m.date_ok)
        without == ChapterLoop(LoopStart, good)
    IN  /\ pc = "panicked" => failure \in AssetOrSourceFailures
        /\ AfterLoop => (files = without.files /\ chapters = without.chapters)
        /\ (pc = "returned") =>
              main_tex = Some(<<main_template>> \o Includes(without.chapters)
                                \o <<Chars("\\end{document}")>>)

\* the filter has run
AfterFilter == pc = "json" \/ InLoopOrAfter

IndexOf(q, x) == CHOOSE i \in 1..Len(q) : q[i] = x

BookWorthy(m) == ~(is_reaction(m) \/ is_announcement(m) \/ is_shareplay(m))

\* C9: the filtered messages are the retrieved ones that are no reaction, no
\* announcement and no screen-sharing marker, in the order of the retrieval
\* (ascending timestamps); filtering them again changes nothing.
C9_Filter ==
    AfterFilter =>
        /\ Range(filtered_msgs) = {m \in Range(msgs) : BookWorthy(m)}
        /\ \A i, j \in 1..Len(filtered_msgs) :
              i < j => IndexOf(msgs, filtered_msgs[i]) < IndexOf(msgs, filtered_msgs[j])
        /\ NonDecreasing(filtered_msgs)
        /\ ContentFilter(filtered_msgs) = filtered_msgs

C9_Witness ==
    /\ pc = "json"
    /\ Len(msgs) = 2
    /\ is_shareplay(msgs[1])
    /\ filtered_msgs = <<msgs[2]>>

\* the include directive of a chapter
IncludeOf(name) == Chars("\\include{") \o name \o <<"}", NL>>

DocumentEnd == Chars("\\end{document}")

\* the characters of a chapter key, in byte order
KeyChars == Chars("-0123456789ch")

KeyRank(c) == CHOOSE i \in 1..Len(KeyChars) : KeyChars[i] = c

\* a is before b in the byte-wise order of strings
KeyLess(a, b) ==
    \/ Len(a) < Len(b) /\ SubSeq(b, 1, Len(a)) = a
    \/ \E i \in 1..Min({Len(a), Len(b)}) :
          /\ SubSeq(a, 1, i - 1) = SubSeq(b, 1, i - 1)
          /\ KeyRank(a[i]) < KeyRank(b[i])

\* the writes are main_template, which holds the template after the
\* substitutions of lines 305-320, and one include per chapter file created,
\* in the order the chapters were opened
TemplateAndIncludes(writes) ==
    /\ Len(writes) = 1 + Len(chapters)
    /\ writes[1] = main_template
    /\ \A k \in 1..Len(chapters) : writes[k + 1] = IncludeOf(chapters[k])
    /\ Range(chapters) = DOMAIN files
    /\ NoDuplicates(chapters)

\* C11: in a completed run main.tex is the substituted template, then one
\* include directive per chapter file created, in chapter-emission order,
\* which for non-decreasing timestamps is ascending key order, then the
\* document-end marker as the last write; when the font copy fails the run
\* ends with main.tex holding the template and the includes and no
\* document-end marker.
C11_RootManuscript ==
    NonDecreasing(filtered_msgs) =>
        /\ pc = "returned" =>
              /\ main_tex.some
              /\ Len(main_tex.val) >= 2
              /\ TemplateAndIncludes(SubSeq(main_tex.val, 1, Len(main_tex.val) - 1))
              /\ main_tex.val[Len(main_tex.val)] = DocumentEnd
              /\ \A k \in 1..(Len(chapters) - 1) :
                    KeyLess(chapters[k], chapters[k + 1])
        /\ (pc = "panicked" /\ failure = "font") =>
              /\ main_tex.some
              /\ TemplateAndIncludes(main_tex.val)
              /\ \A k \in 1..Len(main_tex.val) : main_tex.val[k] # DocumentEnd

C11_Witness ==
    /\ pc = "returned"
    /\ chapters = <<Chars("ch-2001-12"), Chars("ch-2002-01")>>
    /\ Len(main_tex.val) = 4
    /\ main_tex.val[3] = IncludeOf(Chars("ch-2002-01"))
    /\ main_tex.val[4] = DocumentEnd

====
